---- MODULE Spec2Model ----
(***************************************************************************)
(* Model of the drum-trainer real-time session client:                     *)
(*   frontend/src/store.ts  - the zustand store (session, socket, history) *)
(*   frontend/src/App.tsx   - the App component (input handlers, metronome *)
(*                            commands, tempo customization)               *)
(* Every handler of the program is one action (JavaScript runs a handler   *)
(* to completion).  Browser WebSocket objects are modelled by their        *)
(* readyState; the events the browser delivers to a socket are actions.    *)
(*                                                                         *)
(* The specifications share the session and connection life cycle and add *)
(* one family of events each:                                              *)
(*   Spec          the input sources and the metronome buttons             *)
(*   SpecFeedback  hit_feedback frames and the ignore window               *)
(*   SpecTempo     the tempo customization panel                           *)
(*   SpecDevice    device messages interleaved with hit_feedback frames    *)
(* The events a specification leaves out write only variables that none of *)
(* its own actions read.                                                   *)
(***************************************************************************)
EXTENDS Integers, Sequences, FiniteSets, TLC

(* ------------------------------ bounds --------------------------------- *)
\* sessions the service creates in one run (one socket is created for each)
MaxSessions == 2
\* hit_feedback frames the service delivers in one run
MaxFrames == 2
\* hit_feedback frames with scores the service delivers in one run
MaxScored == 1
\* runs of the setup effects of one App instance
MaxEffectRuns == 3
\* length of the longest hit history a summary is computed for
MaxHistory == 17

(* --------------------------- value domains ----------------------------- *)
\* JavaScript null, one per type (TLC compares values of one type only)
NullSocket == 0
NullId == 0
NullSession == [id |-> NullId, drill_id |-> "null"]
NullDrill == "null"
NullRolling == <<>>
NullTempo == {}

\* tempo_bpm of the drills of the catalog
DrillTempo == [d1 |-> 120, d2 |-> 60]

\* subdivision of the drills of the catalog
DrillSubdivision == [d1 |-> 4, d2 |-> 3]
\* Drill.beats_per_bar of the drills of the catalog
DrillBeatsPerBar == [d1 |-> 4, d2 |-> 3]

\* timing_score and dyn_score are numbers in [0, 1]; the model holds them as
\* whole multiples of 1 / ScoreUnit
ScoreUnit == 100000

\* <<slot_idx, timing_score, dyn_score>> of the scored frames: scores on
\* and next to the thresholds 0.9, 0.7 and 0.5 of either score and of their
\* mean
ScoredHits ==
  {<<37, 86000, 78000>>, <<0, 90000, 90000>>, <<5, 89999, 90000>>,
   <<37, 90000, 89999>>, <<0, 70000, 70000>>, <<5, 69999, 70001>>,
   <<37, 50000, 50000>>, <<0, 49999, 50000>>, <<5, 100000, 0>>,
   <<37, 0, 100000>>}

\* values parseInt(e.target.value) yields for what the user types in the tempo
\* input (NaN is stored as null)
TempoTyped == {NullTempo, {39}, {40}, {300}, {301}}

\* WebSocket.readyState
CONNECTING == "CONNECTING"
OPEN == "OPEN"
CLOSING == "CLOSING"
CLOSED == "CLOSED"

\* keyboardMidiMap: KeyboardEvent.code -> note
keyboardMidiMap ==
  [KeyA |-> 36, KeyS |-> 38, KeyD |-> 42, KeyF |-> 46, KeyG |-> 49,
   KeyH |-> 51, KeyJ |-> 45, KeyK |-> 47, KeyL |-> 48, Space |-> 36]
\* key codes pressed in the model: two mapped, one unmapped
KeyCodes == {"KeyA", "KeyS", "KeyQ"}
\* every code of keyboardMidiMap, and one code that is not in it
AllKeyCodes == DOMAIN keyboardMidiMap \cup {"KeyQ"}

\* MIDI messages delivered by a device: <<status, note, velocity>>; note-on
\* on channel 1, with velocity 0, note-off, and note-on on channel 2
MidiData ==
  {<<144, 36, 100>>, <<144, 36, 0>>, <<128, 36, 64>>, <<145, 38, 90>>}

\* the MIDI inputs access.inputs enumerates
MidiInputs == {"in1"}

\* the fields every hit_feedback message has (types.ts:53-66)
RequiredFields ==
  {"slot_idx", "delta_ms", "timing_score", "dyn_score", "rolling"}

\* inbound frames that are not hit_feedback: the three informational types,
\* a type the store does not know, an object without a type field, and a
\* text that is not JSON
OtherFrames == {[type |-> "session_start"], [type |-> "calibration_update"],
                [type |-> "error"], [type |-> "unrecognized"],
                [type |-> "undefined"], [type |-> "malformed"]}

\* metronome_state frames (App.tsx:152-156)
MetronomeStateFrames ==
  {[type |-> "metronome_state", is_playing |-> TRUE, current_beat |-> 2,
    current_subdivision |-> 1],
   [type |-> "metronome_state", is_playing |-> FALSE, current_beat |-> 0,
    current_subdivision |-> 0]}

\* metronome_tick frames (App.tsx:157-163)
MetronomeTickFrames ==
  {[type |-> "metronome_tick", beat |-> 2, subdivision |-> sub,
    is_downbeat |-> down, is_beat |-> beat] :
     sub \in {0, 1}, down \in BOOLEAN, beat \in BOOLEAN}

MetronomeFrames == MetronomeStateFrames \cup MetronomeTickFrames

\* metronome frames whose phase fields lie outside the bar of every drill
UntrustedFrames ==
  {[type |-> "metronome_tick", beat |-> 7, subdivision |-> 0,
    is_downbeat |-> FALSE, is_beat |-> TRUE],
   [type |-> "metronome_tick", beat |-> 0 - 1, subdivision |-> 0,
    is_downbeat |-> FALSE, is_beat |-> TRUE],
   [type |-> "metronome_state", is_playing |-> TRUE, current_beat |-> 0,
    current_subdivision |-> 9]}

VARIABLES
  catalog,     \* the drills GET /v1/drills serves
  store,       \* the zustand state (store.ts:45-57)
  sockets,     \* the WebSocket objects created so far, in creation order
  view,        \* the store values of the last committed render of App
  isLoading,   \* App.tsx:26
  error,       \* App.tsx:27
  pending,     \* the createSession request awaiting its response
  nSessions,   \* sessions created by the service
  nFrames,     \* hit_feedback frames delivered
  midiHandlers,  \* the MIDI inputs whose onmidimessage handler is set
  customTempoBpm,          \* App.tsx:35
  showTempoCustomization,  \* App.tsx:36
  setup,       \* drillsFetchedRef, midiSetupRef (App.tsx:39-40) with the
               \* requests the setup effects issued and their runs
  metronome,   \* isMetronomePlaying, currentBeat, currentSubdivision
               \* (App.tsx:30-32)
  listener,    \* the socket App's message listener is attached to
  rendered,    \* the hit list of the last committed render
  click,       \* observer: the clicks the last step played
  lastOp,      \* observer: the handler that ran last, with its input
  out,         \* observer: frames that handler wrote, each with its socket
  cancelled,   \* observer: disconnect/clearSession returned, no connect since
  dropped      \* observer: hit_feedback frames dropped in an ignore window

vars == <<catalog, store, sockets, view, isLoading, error, pending, nSessions,
          nFrames, midiHandlers, customTempoBpm, showTempoCustomization,
          setup, metronome, listener, rendered, click, lastOp, out,
          cancelled, dropped>>

(* ------------------------------ the store ------------------------------ *)
InitialStore ==
  [drills |-> {}, selectedDrill |-> NullDrill,
   currentSession |-> NullSession, sessionId |-> NullId,
   ws |-> NullSocket, isConnected |-> FALSE,
   hitHistory |-> <<>>, currentRolling |-> NullRolling,
   midiAccess |-> "null", midiInputs |-> {},
   isCountdownActive |-> FALSE]

\* a world is the store together with the socket objects it acts on
World == [store |-> store, sockets |-> sockets]

\* WebSocket.close(): starts the closing handshake unless already closing/closed
SocketClose(socks, s) ==
  IF s = NullSocket \/ socks[s].readyState \in {CLOSING, CLOSED}
  THEN socks
  ELSE [socks EXCEPT ![s].readyState = CLOSING, ![s].closeCalled = TRUE]

setDrills(w, drills) == [w EXCEPT !.store.drills = drills]

\* selectDrill that also starts the hit history afresh
selectDrill_clearsHistory(w, drill) ==
  [w EXCEPT !.store.selectedDrill = drill,
            !.store.hitHistory = <<>>,
            !.store.currentRolling = NullRolling]

selectDrill(w, drill) == [w EXCEPT !.store.selectedDrill = drill]

\* disconnectWebSocket that forgets the isConnected flag
disconnectWebSocket_keepsFlag(w) ==
  [store |-> [w.store EXCEPT !.ws = NullSocket],
   sockets |-> IF w.store.ws # NullSocket
               THEN SocketClose(w.sockets, w.store.ws)
               ELSE w.sockets]

\* disconnectWebSocket that closes the socket and keeps ws until a later call
disconnectWebSocket_keepsWsUntilClosed(w) ==
  IF /\ w.store.ws # NullSocket
     /\ w.sockets[w.store.ws].readyState \in {CONNECTING, OPEN}
  THEN [store |-> [w.store EXCEPT !.isConnected = FALSE],
        sockets |-> SocketClose(w.sockets, w.store.ws)]
  ELSE [store |-> [w.store EXCEPT !.ws = NullSocket, !.isConnected = FALSE],
        sockets |-> w.sockets]

disconnectWebSocket(w) ==
  [store |-> [w.store EXCEPT !.ws = NullSocket, !.isConnected = FALSE],
   sockets |-> IF w.store.ws # NullSocket
               THEN SocketClose(w.sockets, w.store.ws)
               ELSE w.sockets]

\* new WebSocket(`ws://localhost:8000/v1/stream/${sessionId}`); closeCalled
\* observes that close() was called on the socket
NewWebSocket(sessionId) ==
  [readyState |-> CONNECTING, sessionId |-> sessionId, closeCalled |-> FALSE]

connectWebSocket(w, sessionId) ==
  LET d == disconnectWebSocket(w)
  IN  [d EXCEPT !.sockets = Append(d.sockets, NewWebSocket(sessionId))]

\* ws.onopen of socket s
\* onopen that sets the flag and leaves ws as it is
onopen_flagOnly(w, s) == [w EXCEPT !.store.isConnected = TRUE]

onopen(w, s) == [w EXCEPT !.store.ws = s, !.store.isConnected = TRUE]

\* ws.onclose of socket s
\* onclose that opens a new socket for the session of the closed one
onclose_reconnects(w, s) ==
  [w EXCEPT !.store.ws = NullSocket, !.store.isConnected = FALSE,
            !.sockets = Append(w.sockets,
                               NewWebSocket(w.sockets[s].sessionId))]

onclose(w, s) == [w EXCEPT !.store.ws = NullSocket, !.store.isConnected = FALSE]

\* ws.onerror of socket s
onerror(w, s) == [w EXCEPT !.store.ws = NullSocket, !.store.isConnected = FALSE]

\* JavaScript undefined, read from a message that has no rolling field
UndefinedRolling == <<"undefined">>

\* `feedback.rolling`
RollingOf(feedback) ==
  IF "rolling" \in DOMAIN feedback THEN feedback.rolling
  ELSE UndefinedRolling

\* addHitFeedback that puts the newest entry first
addHitFeedback_prepends(w, feedback) ==
  IF ~w.store.isCountdownActive
  THEN [w EXCEPT !.store.hitHistory = <<feedback>> \o w.store.hitHistory,
                 !.store.currentRolling = feedback.rolling]
  ELSE w

\* addHitFeedback that keeps the first rolling score it saw
addHitFeedback_keepsFirstRolling(w, feedback) ==
  IF ~w.store.isCountdownActive
  THEN [w EXCEPT !.store.hitHistory = Append(w.store.hitHistory, feedback),
                 !.store.currentRolling =
                   IF w.store.currentRolling = NullRolling
                   THEN feedback.rolling ELSE w.store.currentRolling]
  ELSE w

\* addHitFeedback without the isCountdownActive test
addHitFeedback_ignoresCountdown(w, feedback) ==
  [w EXCEPT !.store.hitHistory = Append(w.store.hitHistory, feedback),
            !.store.currentRolling = feedback.rolling]

addHitFeedback(w, feedback) ==
  IF ~w.store.isCountdownActive
  THEN [w EXCEPT !.store.hitHistory = Append(w.store.hitHistory, feedback),
                 !.store.currentRolling = RollingOf(feedback)]
  ELSE w

\* JSON.parse(event.data) returns a message
Parses(frame) == frame.type # "malformed"

\* ws.onmessage that gives up the connection on a frame it cannot parse
onmessage_closesOnParseError(w, s, frame) ==
  IF ~Parses(frame) THEN disconnectWebSocket(w)
  ELSE IF frame.type = "hit_feedback" THEN addHitFeedback(w, frame)
  ELSE w

\* ws.onmessage of socket s (store.ts:103-120): a parse failure is caught
\* and logged, the other types are logged
onmessage(w, s, frame) ==
  IF ~Parses(frame) THEN w
  ELSE IF frame.type = "hit_feedback" THEN addHitFeedback(w, frame)
  ELSE w

setMidiAccess(w, access) == [w EXCEPT !.store.midiAccess = access]

setMidiInputs(w, inputs) == [w EXCEPT !.store.midiInputs = inputs]

setCountdownActive(w, active) == [w EXCEPT !.store.isCountdownActive = active]

\* clearSession that forgets to reset the rolling score
clearSession_keepsRolling(w) ==
  LET d == disconnectWebSocket(w)
  IN  [d EXCEPT !.store.currentSession = NullSession,
                !.store.sessionId = NullId,
                !.store.hitHistory = <<>>,
                !.store.isCountdownActive = FALSE]

clearSession(w) ==
  LET d == disconnectWebSocket(w)
  IN  [d EXCEPT !.store.currentSession = NullSession,
                !.store.sessionId = NullId,
                !.store.hitHistory = <<>>,
                !.store.currentRolling = NullRolling,
                !.store.isCountdownActive = FALSE]

\* createSession after a 2xx response carrying session
\* createSession that stores the session and leaves sessionId as it is
createSessionOk_noId(w, session) ==
  [w EXCEPT !.store.currentSession = session]

createSessionOk(w, session) ==
  [w EXCEPT !.store.currentSession = session, !.store.sessionId = session.id]

\* createSession that drops the current session when the request fails
createSessionFail_dropsSession(w) ==
  [w EXCEPT !.store.currentSession = NullSession, !.store.sessionId = NullId]

\* createSession after a failed request: the catch block rethrows
createSessionFail(w) == w

(* ------------------------------ the view ------------------------------- *)
\* the store values App destructures in a render (App.tsx:8-24)
RenderOf(st) ==
  [selectedDrill |-> st.selectedDrill, currentSession |-> st.currentSession,
   isConnected |-> st.isConnected]

\* the connection status the practice section shows for render c
\* (App.tsx:437)
StatusText(c) == IF c.isConnected THEN "Connected" ELSE "Connecting..."

\* hitHistory.slice(-n)
LastN(h, n) ==
  IF Len(h) <= n THEN h ELSE SubSeq(h, Len(h) - n + 1, Len(h))

\* .reverse()
Reverse(h) == [i \in 1 .. Len(h) |-> h[Len(h) + 1 - i]]

\* `selectedDrill?.beats_per_bar || 4` (App.tsx:577)
BeatsPerBar(drill) ==
  IF drill = NullDrill THEN 4 ELSE DrillBeatsPerBar[drill]

\* `selectedDrill?.subdivision || 4` (App.tsx:635-636)
Subdivision(drill) ==
  IF drill = NullDrill THEN 4 ELSE DrillSubdivision[drill]

\* the bucket cascade with the lower bounds excluded
qualityOf_exclusive(num, den) ==
  IF num * 10 > 9 * den * ScoreUnit THEN "Perfect"
  ELSE IF num * 10 > 7 * den * ScoreUnit THEN "Good"
  ELSE IF num * 10 > 5 * den * ScoreUnit THEN "OK"
  ELSE "Poor"

\* `x >= 0.9 ? 'Perfect' : x >= 0.7 ? 'Good' : x >= 0.5 ? 'OK' : 'Poor'` for
\* the score x = num / den, num in units of 1 / ScoreUnit (App.tsx:639-652)
qualityOf(num, den) ==
  IF num * 10 >= 9 * den * ScoreUnit THEN "Perfect"
  ELSE IF num * 10 >= 7 * den * ScoreUnit THEN "Good"
  ELSE IF num * 10 >= 5 * den * ScoreUnit THEN "OK"
  ELSE "Poor"

\* one row of the hit list (App.tsx:633-714); overallQuality is the bucket
\* of (hit.timing_score + hit.dyn_score) / 2 shown by the quality badge
HitRow(hit, drill) ==
  [hit |-> hit,
   beat |-> (hit.slot_idx \div Subdivision(drill)) + 1,
   subdivision |-> (hit.slot_idx % Subdivision(drill)) + 1,
   timingQuality |-> qualityOf(hit.timing_score, 1),
   dynamicsQuality |-> qualityOf(hit.dyn_score, 1),
   overallQuality |-> qualityOf(hit.timing_score + hit.dyn_score, 2)]

\* hitHistory.reduce((sum, hit) => sum + hit[field], 0), in 1/ScoreUnit
RECURSIVE reduceSum(_, _)
reduceSum(h, field) ==
  IF h = <<>> THEN 0
  ELSE reduceSum(SubSeq(h, 1, Len(h) - 1), field) + h[Len(h)][field]

\* (sum / length * 100).toFixed(1), in tenths of a percent, of a sum given
\* in 1/ScoreUnit
toFixed1(sum, length) ==
  (sum + (ScoreUnit \div 2000) * length) \div ((ScoreUnit \div 1000) * length)

\* the summary computed over the listed window of 15 hits
summaryOf_window(h) ==
  IF Len(h) > 0
  THEN <<[count |-> Len(LastN(h, 15)),
          timing |-> toFixed1(reduceSum(LastN(h, 15), "timing_score"),
                              Len(LastN(h, 15))),
          dynamics |-> toFixed1(reduceSum(LastN(h, 15), "dyn_score"),
                                Len(LastN(h, 15)))]>>
  ELSE <<>>

\* the summary statistics, rendered inside `hitHistory.length > 0 &&`
\* (App.tsx:615, 720-737)
summaryOf(h) ==
  IF Len(h) > 0
  THEN <<[count |-> Len(h),
          timing |-> toFixed1(reduceSum(h, "timing_score"), Len(h)),
          dynamics |-> toFixed1(reduceSum(h, "dyn_score"), Len(h))]>>
  ELSE <<>>

\* the hit list a render of the store st shows, with the session it is
\* shown for (App.tsx:615-737)
HitList(st) ==
  [session |-> st.currentSession,
   summary |-> summaryOf(st.hitHistory),
   rows |-> [i \in 1 .. Len(LastN(st.hitHistory, 15)) |->
               HitRow(Reverse(LastN(st.hitHistory, 15))[i],
                      st.selectedDrill)]]

\* useState(false), useState(0), useState(0) (App.tsx:30-32)
InitialMetronome ==
  [isMetronomePlaying |-> FALSE, currentBeat |-> 0, currentSubdivision |-> 0]

\* the effect of App.tsx:143-174 when a render of st replaces the render v:
\* it runs only when isConnected or currentSession changed; its cleanup
\* removes the listener, and it attaches a new one to the store's socket
MessageListener(v, st, l) ==
  IF v.isConnected = st.isConnected /\ v.currentSession = st.currentSession
  THEN l
  ELSE IF ~st.isConnected \/ st.currentSession = NullSession
  THEN NullSocket
  ELSE st.ws

\* handleMessage that takes only is_playing from a metronome_state
handleMessage_keepsPhase(m, message) ==
  IF message.type = "metronome_state"
  THEN [m EXCEPT !.isMetronomePlaying = message.is_playing]
  ELSE IF message.type = "metronome_tick"
  THEN [m EXCEPT !.currentBeat = message.beat,
                 !.currentSubdivision = message.subdivision]
  ELSE m

\* handleMessage of that effect (App.tsx:149-167): the metronome state after
\* message
handleMessage(m, message) ==
  IF message.type = "metronome_state"
  THEN [isMetronomePlaying |-> message.is_playing,
        currentBeat |-> message.current_beat,
        currentSubdivision |-> message.current_subdivision]
  ELSE IF message.type = "metronome_tick"
  THEN [m EXCEPT !.currentBeat = message.beat,
                 !.currentSubdivision = message.subdivision]
  ELSE m

\* playClickSound that tests isBeat first
playClickSound_beatFirst(isDownbeat, isBeat) ==
  IF isBeat THEN [frequency |-> 600, gain |-> 2]
  ELSE IF isDownbeat THEN [frequency |-> 800, gain |-> 3]
  ELSE [frequency |-> 400, gain |-> 1]

\* playClickSound (App.tsx:177-206): oscillator frequency in Hz and gain in
\* tenths
playClickSound(isDownbeat, isBeat) ==
  IF isDownbeat THEN [frequency |-> 800, gain |-> 3]
  ELSE IF isBeat THEN [frequency |-> 600, gain |-> 2]
  ELSE [frequency |-> 400, gain |-> 1]

\* the clicks handleMessage plays for message
ClicksOf(message) ==
  IF message.type = "metronome_tick"
  THEN <<playClickSound(message.is_downbeat, message.is_beat)>>
  ELSE <<>>

\* the render whose values the onmidimessage handlers close over: the effect
\* that registers them runs once, after the first render (App.tsx:81-125)
MidiClosure == RenderOf(InitialStore)

\* the render whose values handleKeyboardMidi and the metronome handlers use
HandlerClosure == view

(* --------------------------- App: the handlers ------------------------- *)
\* ws.send(JSON.stringify(frame)) on socket s
Send(s, frame) == [socket |-> s, frame |-> frame]

\* IsOpen without the readyState test
IsOpen_anyReadyState(w) == w.store.ws # NullSocket

\* the socket is usable: `ws && ws.readyState === WebSocket.OPEN`
IsOpen(w) ==
  w.store.ws # NullSocket /\ w.sockets[w.store.ws].readyState = OPEN

\* the hitEvent input.onmidimessage builds from event.data
\* (App.tsx:99-105)
hitEventOf(data) ==
  IF data[1] = 144 /\ data[3] > 0
  THEN <<[type |-> "midi", note |-> data[2], velocity |-> data[3]]>>
  ELSE <<>>

\* input.onmidimessage (App.tsx:97-115); c is the render it closes over
onmidimessage(c, w, data) ==
  IF data[1] = 144 /\ data[3] > 0
  THEN IF c.isConnected /\ c.currentSession # NullSession
       THEN IF IsOpen(w)
            THEN <<Send(w.store.ws, [type |-> "midi", note |-> data[2],
                                     velocity |-> data[3]])>>
            ELSE <<>>
       ELSE <<>>
  ELSE <<>>

\* handleKeyboardMidi with preventDefault called before the lookup of the code
handleKeyboardMidi_preventsFirst(c, w, code) ==
  IF c.currentSession = NullSession \/ ~c.isConnected
  THEN [sent |-> <<>>, defaultPrevented |-> FALSE]
  ELSE [sent |-> IF code \in DOMAIN keyboardMidiMap /\ IsOpen(w)
                 THEN <<Send(w.store.ws, [type |-> "midi",
                                          note |-> keyboardMidiMap[code],
                                          velocity |-> 80])>>
                 ELSE <<>>,
        defaultPrevented |-> TRUE]

\* handleKeyboardMidi (App.tsx:296-320); c is the render it closes over
handleKeyboardMidi(c, w, code) ==
  IF c.currentSession = NullSession \/ ~c.isConnected
  THEN [sent |-> <<>>, defaultPrevented |-> FALSE]
  ELSE IF code \notin DOMAIN keyboardMidiMap
  THEN [sent |-> <<>>, defaultPrevented |-> FALSE]
  ELSE [sent |-> IF IsOpen(w)
                 THEN <<Send(w.store.ws, [type |-> "midi",
                                          note |-> keyboardMidiMap[code],
                                          velocity |-> 80])>>
                 ELSE <<>>,
        defaultPrevented |-> TRUE]

\* handleMetronome without the readyState test
handleMetronome_anyReadyState(c, w, action) ==
  IF c.currentSession = NullSession \/ ~c.isConnected
  THEN <<>>
  ELSE IF w.store.ws # NullSocket
  THEN <<Send(w.store.ws, [type |-> "metronome_control",
                           metronome_action |-> action])>>
  ELSE <<>>

\* handleStartMetronome / handleStopMetronome / handleResetMetronome
\* (App.tsx:234-274)
handleMetronome(c, w, action) ==
  IF c.currentSession = NullSession \/ ~c.isConnected
  THEN <<>>
  ELSE IF IsOpen(w)
  THEN <<Send(w.store.ws, [type |-> "metronome_control",
                           metronome_action |-> action])>>
  ELSE <<>>

\* handleUpdateMetronomeTempo (App.tsx:277-293)
handleUpdateMetronomeTempo(c, w, bpm) ==
  IF c.currentSession = NullSession \/ ~c.isConnected
  THEN <<>>
  ELSE IF IsOpen(w)
  THEN <<Send(w.store.ws, [type |-> "metronome_control",
                           metronome_action |-> "update_tempo",
                           custom_tempo_bpm |-> bpm])>>
  ELSE <<>>

\* `selectedDrill?.tempo_bpm || 120` (App.tsx:484-513)
PresetBase(c) ==
  IF c.selectedDrill = NullDrill THEN 120 ELSE DrillTempo[c.selectedDrill]

\* the preset buttons -20 -10 +10 +20 with their `disabled` conditions
PresetEnabled(c, delta) ==
  CASE delta = -20 -> ~(PresetBase(c) <= 60)
    [] delta = -10 -> ~(PresetBase(c) <= 50)
    [] delta = 10  -> ~(PresetBase(c) >= 290)
    [] delta = 20  -> ~(PresetBase(c) >= 280)

(* --------------------------- App: the setup effects -------------------- *)
\* useRef(false), useRef(false): no effect has run, no request was issued
Unmounted ==
  [drillsFetchedRef |-> FALSE, midiSetupRef |-> FALSE,
   drillRequests |-> 0, midiRequests |-> 0, runs |-> 0]

\* the effect of App.tsx:57-78: fetch('/v1/drills') unless the ref is set
fetchDrillsEffect(su) ==
  IF su.drillsFetchedRef THEN su
  ELSE [su EXCEPT !.drillsFetchedRef = TRUE, !.drillRequests = @ + 1]

\* the MIDI effect without the test of midiSetupRef
setupMIDIEffect_noRef(su) ==
  [su EXCEPT !.midiSetupRef = TRUE, !.midiRequests = @ + 1]

\* the effect of App.tsx:81-125: navigator.requestMIDIAccess() unless the
\* ref is set
setupMIDIEffect(su) ==
  IF su.midiSetupRef THEN su
  ELSE [su EXCEPT !.midiSetupRef = TRUE, !.midiRequests = @ + 1]

\* one run of the two effects, in the order they are declared
SetupEffects(su) ==
  [setupMIDIEffect(fetchDrillsEffect(su)) EXCEPT !.runs = @ + 1]

\* the effects have run once, after the first render
Mounted == SetupEffects(Unmounted)

(* ------------------------------- Init ---------------------------------- *)
NoRequest == [drill_id |-> NullDrill, superseded |-> FALSE]

\* the state after the module is loaded and App has rendered once, with the
\* setup effects in state su; the service serves the drills cat
InitFrom(cat, su) ==
  /\ catalog = cat
  /\ setup = su
  /\ store = InitialStore
  /\ sockets = <<>>
  /\ view = RenderOf(InitialStore)
  /\ isLoading = FALSE
  /\ error = "null"
  /\ pending = NoRequest
  /\ nSessions = 0
  /\ nFrames = 0
  /\ midiHandlers = {}
  /\ customTempoBpm = NullTempo
  /\ showTempoCustomization = FALSE
  /\ metronome = InitialMetronome
  /\ listener = NullSocket
  /\ rendered = HitList(InitialStore)
  /\ click = <<>>
  /\ lastOp = [name |-> "init"]
  /\ out = <<>>
  /\ cancelled = FALSE
  /\ dropped = {}

\* the same state once the setup effects have run
InitWith(cat) == InitFrom(cat, Mounted)

Init == InitWith({"d1"})

\* the part of the state an action of the store leaves alone
AppUnchanged ==
  UNCHANGED <<catalog, setup, metronome, listener, rendered,
              view, isLoading, error, pending, nSessions, nFrames,
              midiHandlers, customTempoBpm, showTempoCustomization, dropped>>

\* the part of the state an input or button handler leaves alone
WorldUnchanged ==
  UNCHANGED <<catalog, setup, metronome, listener, rendered,
              store, sockets, view, isLoading, error, pending,
              nSessions, nFrames, midiHandlers, cancelled, dropped>>

\* the world after the step is w
Becomes(w) == store' = w.store /\ sockets' = w.sockets

\* the handlers lastOp records; any other handler is recorded as "other"
Observed ==
  {"clearSession", "createSessionResolved", "createSessionRejected",
   "onmessage", "onmidimessage", "keydown", "handleMetronome",
   "handleUpdateMetronomeTempo", "setupEffects"}

\* the observers: the step ran handler op and wrote the frames o
Observe(op, o) ==
  /\ lastOp' = IF op.name \in Observed THEN op ELSE [name |-> "other"]
  /\ out' = o
  /\ click' = <<>>

(* ------------------------------ actions -------------------------------- *)
\* the drill catalog arrives and is handed to the store (App.tsx:57-78)
FetchDrills ==
  /\ setup.drillRequests > 0
  /\ store.drills = {}
  /\ Becomes(setDrills(World, catalog))
  /\ Observe([name |-> "setDrills"], <<>>)
  /\ AppUnchanged /\ UNCHANGED cancelled

\* the setup effects run, for the first time or again
RunSetupEffects ==
  /\ setup.runs < MaxEffectRuns
  /\ setup' = SetupEffects(setup)
  /\ Observe([name |-> "setupEffects"], <<>>)
  /\ UNCHANGED <<catalog, metronome, listener, rendered, store, sockets,
                 view, isLoading, error, pending, nSessions, nFrames,
                 midiHandlers, customTempoBpm, showTempoCustomization,
                 cancelled, dropped>>

\* the user clicks a drill card (App.tsx:346)
SelectDrill ==
  \E d \in store.drills :
    /\ Becomes(selectDrill(World, d))
    /\ Observe([name |-> "selectDrill", drill |-> d], <<>>)
    /\ AppUnchanged /\ UNCHANGED cancelled

\* React commits a render of the current store and re-runs the effects
Render ==
  /\ view # RenderOf(store)
  /\ view' = RenderOf(store)
  /\ listener' = MessageListener(view, store, listener)
  /\ Observe([name |-> "render"], <<>>)
  /\ UNCHANGED <<catalog, setup, metronome, rendered,
                 store, sockets, isLoading, error, pending,
                 nSessions, nFrames, midiHandlers, customTempoBpm,
                 showTempoCustomization, cancelled, dropped>>

\* requestMIDIAccess() resolves: setupMIDI registers the handlers
\* (App.tsx:86-116)
SetupMIDI ==
  /\ setup.midiRequests > 0
  /\ store.midiAccess = "null"
  /\ Becomes(setMidiInputs(setMidiAccess(World, "access"), MidiInputs))
  /\ midiHandlers' = MidiInputs
  /\ Observe([name |-> "setupMIDI"], <<>>)
  /\ UNCHANGED <<catalog, setup, metronome, listener, rendered,
                 view, isLoading, error, pending, nSessions,
                 nFrames, customTempoBpm, showTempoCustomization, cancelled,
                 dropped>>

\* handleStartSession up to its await (App.tsx:208-216)
HandleStartSession ==
  /\ ~isLoading
  /\ HandlerClosure.selectedDrill # NullDrill
  /\ isLoading' = TRUE
  /\ error' = "null"
  /\ pending' = [drill_id |-> HandlerClosure.selectedDrill,
                 superseded |-> FALSE]
  /\ Observe([name |-> "handleStartSession"], <<>>)
  /\ UNCHANGED <<catalog, setup, metronome, listener, rendered,
                 store, sockets, view, nSessions, nFrames,
                 midiHandlers, customTempoBpm, showTempoCustomization,
                 cancelled, dropped>>

\* the request succeeds: createSession stores the session and
\* handleStartSession connects (store.ts:83-85, App.tsx:217-225)
CreateSessionResolved ==
  /\ pending # NoRequest
  /\ nSessions < MaxSessions
  /\ LET session == [id |-> nSessions + 1, drill_id |-> pending.drill_id]
     IN  /\ Becomes(connectWebSocket(createSessionOk(World, session),
                                     session.id))
         /\ Observe([name |-> "createSessionResolved", session |-> session,
                     superseded |-> pending.superseded], <<>>)
  /\ nSessions' = nSessions + 1
  /\ pending' = NoRequest
  /\ customTempoBpm' = NullTempo
  /\ showTempoCustomization' = FALSE
  /\ isLoading' = FALSE
  /\ cancelled' = FALSE
  /\ UNCHANGED <<catalog, setup, metronome, listener, rendered,
                 view, error, nFrames, midiHandlers, dropped>>

\* the request fails (non-2xx, fetch throws, or the body is not JSON):
\* createSession rethrows, handleStartSession reports (store.ts:79-89,
\* App.tsx:222-226)
CreateSessionRejected ==
  \E reason \in {"status", "fetch", "json"} :
    /\ pending # NoRequest
    /\ Becomes(createSessionFail(World))
    /\ Observe([name |-> "createSessionRejected", reason |-> reason], <<>>)
    /\ pending' = NoRequest
    /\ error' = "Failed to start session"
    /\ isLoading' = FALSE
    /\ UNCHANGED <<catalog, setup, metronome, listener, rendered,
                   view, nSessions, nFrames, midiHandlers,
                   customTempoBpm, showTempoCustomization, cancelled, dropped>>

\* a request in flight when the session is cleared is superseded
Supersede(req) ==
  IF req = NoRequest THEN req ELSE [req EXCEPT !.superseded = TRUE]

\* handleStopSession (App.tsx:229-231)
ClearSession ==
  /\ Becomes(clearSession(World))
  /\ Observe([name |-> "clearSession", hits |-> Len(store.hitHistory),
              again |-> lastOp.name = "clearSession"], <<>>)
  /\ cancelled' = TRUE
  /\ pending' = Supersede(pending)
  /\ UNCHANGED <<catalog, setup, metronome, listener, rendered,
                 view, isLoading, error, nSessions, nFrames,
                 midiHandlers, customTempoBpm, showTempoCustomization,
                 dropped>>

\* a caller of the store disconnects
DisconnectWebSocket ==
  /\ Becomes(disconnectWebSocket(World))
  /\ Observe([name |-> "disconnectWebSocket"], <<>>)
  /\ cancelled' = TRUE
  /\ AppUnchanged

\* a caller of the store opens or closes the ignore window
SetCountdownActive ==
  \E active \in BOOLEAN :
    /\ store.isCountdownActive # active
    /\ Becomes(setCountdownActive(World, active))
    /\ Observe([name |-> "setCountdownActive", active |-> active], <<>>)
    /\ AppUnchanged /\ UNCHANGED cancelled

(* the events of a socket *)
Sockets == 1 .. Len(sockets)

SetReadyState(w, s, rs) == [w EXCEPT !.sockets[s].readyState = rs]

\* the handshake of socket s completes: open event
SocketOpen ==
  \E s \in Sockets :
    /\ sockets[s].readyState = CONNECTING
    /\ Becomes(onopen(SetReadyState(World, s, OPEN), s))
    /\ Observe([name |-> "onopen", socket |-> s], <<>>)
    /\ AppUnchanged /\ UNCHANGED cancelled

\* the peer starts the closing handshake of socket s: no event yet
SocketClosing ==
  \E s \in Sockets :
    /\ sockets[s].readyState = OPEN
    /\ Becomes(SetReadyState(World, s, CLOSING))
    /\ Observe([name |-> "closing", socket |-> s], <<>>)
    /\ AppUnchanged /\ UNCHANGED cancelled

\* the connection of socket s is closed: close event
SocketClosed ==
  \E s \in Sockets :
    /\ sockets[s].readyState \in {OPEN, CLOSING}
    /\ Becomes(onclose(SetReadyState(World, s, CLOSED), s))
    /\ Observe([name |-> "onclose", socket |-> s], <<>>)
    /\ AppUnchanged /\ UNCHANGED cancelled

\* the connection of socket s fails: error event, then close event
SocketFailed ==
  \E s \in Sockets :
    /\ sockets[s].readyState \in {CONNECTING, OPEN, CLOSING}
    /\ Becomes(onclose(onerror(SetReadyState(World, s, CLOSED), s), s))
    /\ Observe([name |-> "onerror", socket |-> s], <<>>)
    /\ AppUnchanged /\ UNCHANGED cancelled

\* the n-th hit_feedback frame of the run; frame is the identity of the
\* message object, its rolling triple is distinct from every other frame's
HitFeedbackFrame(n) ==
  [type |-> "hit_feedback", frame |-> n, rolling |-> <<n, n, n>>]

\* a hit_feedback frame arrives on socket s
SocketHitFeedback ==
  \E s \in Sockets :
    /\ sockets[s].readyState = OPEN
    /\ nFrames < MaxFrames
    /\ Becomes(onmessage(World, s, HitFeedbackFrame(nFrames + 1)))
    /\ Observe([name |-> "onmessage", socket |-> s,
                message |-> HitFeedbackFrame(nFrames + 1),
                afterOther |-> /\ lastOp.name = "onmessage"
                               /\ lastOp.socket = s
                               /\ lastOp.message \in OtherFrames], <<>>)
    /\ nFrames' = nFrames + 1
    /\ dropped' = IF store.isCountdownActive
                  THEN dropped \cup {nFrames + 1} ELSE dropped
    /\ UNCHANGED <<catalog, setup, metronome, listener, rendered,
                   view, isLoading, error, pending, nSessions,
                   midiHandlers, customTempoBpm, showTempoCustomization,
                   cancelled>>

\* the n-th hit_feedback frame without its required field lacks
IncompleteFrame(n, lacks) ==
  [f \in (DOMAIN HitFeedbackFrame(n) \cup {"lacks"}) \ {lacks} |->
     IF f = "lacks" THEN lacks ELSE HitFeedbackFrame(n)[f]]

\* a hit_feedback frame that lacks a required field arrives on socket s
SocketIncompleteFeedback ==
  \E s \in Sockets, lacks \in RequiredFields :
    /\ sockets[s].readyState = OPEN
    /\ nFrames < MaxFrames
    /\ Becomes(onmessage(World, s, IncompleteFrame(nFrames + 1, lacks)))
    /\ Observe([name |-> "onmessage", socket |-> s,
                message |-> IncompleteFrame(nFrames + 1, lacks)], <<>>)
    /\ nFrames' = nFrames + 1
    /\ dropped' = IF store.isCountdownActive
                  THEN dropped \cup {nFrames + 1} ELSE dropped
    /\ UNCHANGED <<catalog, setup, metronome, listener, rendered,
                   view, isLoading, error, pending, nSessions,
                   midiHandlers, customTempoBpm, showTempoCustomization,
                   cancelled>>

\* the n-th hit_feedback frame with its slot and scores
ScoredFrame(n, hit) ==
  [slot_idx |-> hit[1], timing_score |-> hit[2], dyn_score |-> hit[3]]
    @@ HitFeedbackFrame(n)

\* a hit_feedback frame with slot and scores arrives on socket s
SocketScoredFeedback ==
  \E s \in Sockets, hit \in ScoredHits :
    /\ sockets[s].readyState = OPEN
    /\ nFrames < MaxScored
    /\ Becomes(onmessage(World, s, ScoredFrame(nFrames + 1, hit)))
    /\ Observe([name |-> "onmessage", socket |-> s,
                message |-> ScoredFrame(nFrames + 1, hit)], <<>>)
    /\ nFrames' = nFrames + 1
    /\ dropped' = IF store.isCountdownActive
                  THEN dropped \cup {nFrames + 1} ELSE dropped
    /\ UNCHANGED <<catalog, setup, metronome, listener, rendered,
                   view, isLoading, error, pending, nSessions,
                   midiHandlers, customTempoBpm, showTempoCustomization,
                   cancelled>>

\* React commits a render of the current store with its hit list and re-runs
\* the effects
RenderHitList ==
  /\ view # RenderOf(store) \/ rendered # HitList(store)
  /\ view' = RenderOf(store)
  /\ listener' = MessageListener(view, store, listener)
  /\ rendered' = HitList(store)
  /\ Observe([name |-> "render"], <<>>)
  /\ UNCHANGED <<catalog, setup, metronome,
                 store, sockets, isLoading, error, pending,
                 nSessions, nFrames, midiHandlers, customTempoBpm,
                 showTempoCustomization, cancelled, dropped>>

\* the metronome frame m arrives on socket s: the store's onmessage runs,
\* then App's listener when it is attached to s
DeliverMetronome(s, m) ==
  /\ sockets[s].readyState = OPEN
  /\ Becomes(onmessage(World, s, m))
  /\ metronome' = IF listener = s THEN handleMessage(metronome, m)
                  ELSE metronome
  /\ click' = IF listener = s THEN ClicksOf(m) ELSE <<>>
  /\ lastOp' = [name |-> "other"]
  /\ out' = <<>>
  /\ UNCHANGED <<catalog, setup, listener, rendered, view, isLoading, error,
                 pending, nSessions, nFrames, midiHandlers,
                 customTempoBpm, showTempoCustomization, cancelled,
                 dropped>>

SocketMetronomeFrame ==
  \E s \in Sockets, m \in MetronomeFrames : DeliverMetronome(s, m)

\* any other frame arrives on socket s
SocketOtherFrame ==
  \E s \in Sockets, m \in OtherFrames :
    /\ sockets[s].readyState = OPEN
    /\ Becomes(onmessage(World, s, m))
    /\ Observe([name |-> "onmessage", socket |-> s, message |-> m], <<>>)
    /\ AppUnchanged /\ UNCHANGED cancelled

(* the input sources *)
\* a device delivers a MIDI message to a registered handler
MidiMessage ==
  \E input \in midiHandlers, data \in MidiData :
    /\ Observe([name |-> "onmidimessage", data |-> data,
                hit |-> hitEventOf(data)],
               onmidimessage(MidiClosure, World, data))
    /\ WorldUnchanged
    /\ UNCHANGED <<customTempoBpm, showTempoCustomization>>

\* a keydown event reaches the document listener (App.tsx:128-140)
KeyEvent(code, repeat) ==
  /\ Observe([name |-> "keydown", code |-> code, repeat |-> repeat,
              defaultPrevented |->
                handleKeyboardMidi(HandlerClosure, World, code).defaultPrevented],
             handleKeyboardMidi(HandlerClosure, World, code).sent)
  /\ WorldUnchanged
  /\ UNCHANGED <<customTempoBpm, showTempoCustomization>>

\* the keydown event of a key going down
KeyPress(code) == KeyEvent(code, FALSE)

KeyDown == \E code \in KeyCodes : KeyPress(code)

\* an auto-repeat keydown event (event.repeat true) of the key that went
\* down in the event before and is still held
KeyRepeat ==
  /\ lastOp.name = "keydown"
  /\ KeyEvent(lastOp.code, TRUE)

\* a keydown event with any of the codes of the map, or an unmapped one
KeyDownAny == \E code \in AllKeyCodes : KeyPress(code)

(* the metronome controls, rendered while the view has a session *)
MetronomeCommand ==
  \E action \in {"start", "stop", "reset"} :
    /\ view.currentSession # NullSession
    /\ Observe([name |-> "handleMetronome", action |-> action],
               handleMetronome(HandlerClosure, World, action))
    /\ WorldUnchanged
    /\ UNCHANGED <<customTempoBpm, showTempoCustomization>>

\* the Adjust Tempo / Done button (App.tsx:456-461)
ToggleTempoCustomization ==
  /\ view.currentSession # NullSession
  /\ showTempoCustomization' = ~showTempoCustomization
  /\ Observe([name |-> "toggleTempo"], <<>>)
  /\ WorldUnchanged /\ UNCHANGED customTempoBpm

\* the user edits the tempo input (App.tsx:474-477)
TypeTempo ==
  \E v \in TempoTyped :
    /\ view.currentSession # NullSession
    /\ showTempoCustomization
    /\ customTempoBpm' = v
    /\ Observe([name |-> "typeTempo"], <<>>)
    /\ WorldUnchanged /\ UNCHANGED showTempoCustomization

\* a preset button -20 -10 +10 +20 (App.tsx:483-516)
PresetTempo ==
  \E delta \in {-20, -10, 10, 20} :
    /\ view.currentSession # NullSession
    /\ showTempoCustomization
    /\ PresetEnabled(view, delta)
    /\ customTempoBpm' = {PresetBase(view) + delta}
    /\ Observe([name |-> "presetTempo"], <<>>)
    /\ WorldUnchanged /\ UNCHANGED showTempoCustomization

\* the Default preset: `selectedDrill?.tempo_bpm || null` (App.tsx:497-502)
DefaultTempo ==
  /\ view.currentSession # NullSession
  /\ showTempoCustomization
  /\ customTempoBpm' = IF view.selectedDrill = NullDrill THEN NullTempo
                       ELSE {DrillTempo[view.selectedDrill]}
  /\ Observe([name |-> "defaultTempo"], <<>>)
  /\ WorldUnchanged /\ UNCHANGED showTempoCustomization

\* the Apply Tempo button (App.tsx:519-525)
ApplyTempo ==
  /\ view.currentSession # NullSession
  /\ showTempoCustomization
  /\ Observe([name |-> "handleUpdateMetronomeTempo"],
             handleUpdateMetronomeTempo(HandlerClosure, World, customTempoBpm))
  /\ showTempoCustomization' =
       (handleUpdateMetronomeTempo(HandlerClosure, World, customTempoBpm) = <<>>)
  /\ WorldUnchanged /\ UNCHANGED customTempoBpm

(* --------------------------- specifications ---------------------------- *)
\* the session and connection life cycle, common to every specification
LifeCycle ==
  \/ FetchDrills
  \/ SelectDrill
  \/ Render
  \/ HandleStartSession
  \/ CreateSessionResolved
  \/ CreateSessionRejected
  \/ ClearSession
  \/ DisconnectWebSocket
  \/ SocketOpen
  \/ SocketClosing
  \/ SocketClosed
  \/ SocketFailed

Next ==
  \/ LifeCycle
  \/ SocketOtherFrame
  \/ SetupMIDI
  \/ MidiMessage
  \/ KeyDown
  \/ MetronomeCommand

Spec == Init /\ [][Next]_vars

NextFeedback ==
  \/ LifeCycle
  \/ SetCountdownActive
  \/ SocketHitFeedback

SpecFeedback == Init /\ [][NextFeedback]_vars

NextTempo ==
  \/ LifeCycle
  \/ ToggleTempoCustomization
  \/ TypeTempo
  \/ PresetTempo
  \/ DefaultTempo
  \/ ApplyTempo

SpecTempo == Init /\ [][NextTempo]_vars

\* the keyboard with keys that are held down
NextRepeat ==
  \/ LifeCycle
  \/ KeyDown
  \/ KeyRepeat

SpecRepeat == Init /\ [][NextRepeat]_vars

\* the session life cycle with the keyboard as the input source
NextKeyboard ==
  \/ LifeCycle
  \/ KeyDownAny

SpecKeyboard == Init /\ [][NextKeyboard]_vars

NextDevice ==
  \/ LifeCycle
  \/ SetupMIDI
  \/ MidiMessage
  \/ SocketHitFeedback

SpecDevice == Init /\ [][NextDevice]_vars

\* the hit list of a catalog of two drills with different subdivisions
InitHitView == InitWith({"d1", "d2"})

NextHitView ==
  \/ FetchDrills
  \/ SelectDrill
  \/ RenderHitList
  \/ HandleStartSession
  \/ CreateSessionResolved
  \/ ClearSession
  \/ SocketOpen
  \/ SocketScoredFeedback

SpecHitView == InitHitView /\ [][NextHitView]_vars

\* hit histories of up to MaxHistory scored hits: k hits with the scores a
\* followed by hits with the scores b
Histories ==
  {[i \in 1 .. n |-> ScoredFrame(i, IF i <= k THEN a ELSE b)] :
     n \in 0 .. MaxHistory, k \in 0 .. MaxHistory,
     a \in ScoredHits, b \in ScoredHits}

\* the store after the frames of h were received
RECURSIVE Received(_, _)
Received(w, h) ==
  IF h = <<>> THEN w
  ELSE addHitFeedback(Received(w, SubSeq(h, 1, Len(h) - 1)), h[Len(h)])

\* a session of drill d1 whose socket is open
OpenSession ==
  LET session == [id |-> 1, drill_id |-> "d1"]
      chosen == selectDrill(setDrills([store |-> InitialStore,
                                       sockets |-> <<>>],
                                      {"d1", "d2"}), "d1")
      created == connectWebSocket(createSessionOk(chosen, session),
                                  session.id)
  IN  onopen(SetReadyState(created, 1, OPEN), 1)

\* a session in which the hits of one of the histories have arrived since
\* the last render
InitSummary ==
  \E h \in Histories :
    /\ catalog = {"d1", "d2"}
    /\ setup = Mounted
    /\ store = Received(OpenSession, h).store
    /\ sockets = Received(OpenSession, h).sockets
    /\ view = RenderOf(OpenSession.store)
    /\ isLoading = FALSE
    /\ error = "null"
    /\ pending = NoRequest
    /\ nSessions = 1
    /\ nFrames = Len(h)
    /\ midiHandlers = {}
    /\ customTempoBpm = NullTempo
    /\ showTempoCustomization = FALSE
    /\ metronome = InitialMetronome
    /\ listener = OpenSession.store.ws
    /\ rendered = HitList(OpenSession.store)
    /\ click = <<>>
    /\ lastOp = [name |-> "init"]
    /\ out = <<>>
    /\ cancelled = FALSE
    /\ dropped = {}

\* renders of the hit list and its summary
NextSummary ==
  \/ RenderHitList
  \/ SelectDrill
  \/ ClearSession

SpecSummary == InitSummary /\ [][NextSummary]_vars

\* every kind of frame the store's onmessage receives
NextFrames ==
  \/ LifeCycle
  \/ SocketHitFeedback
  \/ SocketOtherFrame

SpecFrames == Init /\ [][NextFrames]_vars

\* App from before its setup effects have run
InitSetup == InitFrom({"d1"}, Unmounted)

NextSetup ==
  \/ LifeCycle
  \/ RunSetupEffects
  \/ SetupMIDI

SpecSetup == InitSetup /\ [][NextSetup]_vars

\* hit_feedback frames, complete or not
NextIncomplete ==
  \/ LifeCycle
  \/ SocketHitFeedback
  \/ SocketIncompleteFeedback

SpecIncomplete == Init /\ [][NextIncomplete]_vars

\* the metronome controls of the practice section
NextCommands ==
  \/ LifeCycle
  \/ MetronomeCommand
  \/ ToggleTempoCustomization
  \/ ApplyTempo

SpecCommands == Init /\ [][NextCommands]_vars

\* a metronome frame with a phase out of range arrives on socket s
SocketUntrustedFrame ==
  \E s \in Sockets, m \in UntrustedFrames : DeliverMetronome(s, m)

\* the metronome with frames of any content
NextPhase ==
  \/ LifeCycle
  \/ SocketMetronomeFrame
  \/ SocketUntrustedFrame

SpecPhase == Init /\ [][NextPhase]_vars

NextMetronome ==
  \/ LifeCycle
  \/ SocketMetronomeFrame

SpecMetronome == Init /\ [][NextMetronome]_vars

(* ------------------------------ properties ----------------------------- *)
\* the sockets that are connecting or open
Live == {s \in Sockets : sockets[s].readyState \in {CONNECTING, OPEN}}

\* C1: in every reachable state at most one WebSocket created by the store
\* is in the CONNECTING or OPEN state
C1_AtMostOneLiveSocket == Cardinality(Live) <= 1

\* the frames of the last step that are hit events
IsHitEvent(e) == e.frame.type = "midi"

\* C2: every hit event is written in a state where the store's isConnected
\* is true and the socket written to is OPEN (the handlers that write leave
\* the store and the sockets as they are, so the state after the write is
\* the state of the write)
C2_HitOnlyWhenConnected ==
  \A i \in 1 .. Len(out) :
    IsHitEvent(out[i]) =>
      /\ store.isConnected
      /\ out[i].socket = store.ws
      /\ sockets[out[i].socket].readyState = OPEN

\* C2 witness: a key press wrote a hit event
C2_Witness ==
  /\ lastOp.name = "keydown"
  /\ Len(out) = 1
  /\ IsHitEvent(out[1])

\* C3: after disconnectWebSocket or clearSession returns, and until the next
\* connectWebSocket, isConnected is false, ws is null and nothing is sent
C3_DisconnectIsFinal ==
  cancelled => (~store.isConnected /\ store.ws = NullSocket /\ out = <<>>)

\* C4: the successful response of a createSession that clearSession
\* superseded does not set currentSession or sessionId
C4_SupersededResponseDiscarded ==
  (lastOp.name = "createSessionResolved" /\ lastOp.superseded) =>
    (store.currentSession = NullSession /\ store.sessionId = NullId)

\* the step delivers the close (or error and close) event of socket s
CloseEventOf(s) ==
  /\ s \in Sockets
  /\ sockets[s].readyState # CLOSED
  /\ sockets'[s].readyState = CLOSED

\* C5: once the store has called close() on a socket, no handler of that
\* socket changes the store
C5_ClosedSocketIsSilent ==
  [][\A s \in Sockets :
       (sockets[s].closeCalled /\ CloseEventOf(s)) => store' = store]_vars

\* C6: in the state immediately after clearSession returns, hitHistory is
\* empty, currentRolling, currentSession and sessionId are null,
\* isCountdownActive is false, ws is null and isConnected is false
C6_ClearSessionResets ==
  lastOp.name = "clearSession" =>
    /\ store.hitHistory = <<>>
    /\ store.currentRolling = NullRolling
    /\ store.currentSession = NullSession
    /\ store.sessionId = NullId
    /\ ~store.isCountdownActive
    /\ store.ws = NullSocket
    /\ ~store.isConnected

\* C6 witness: clearSession ran on a non-empty history and closed a socket
C6_Witness ==
  /\ lastOp.name = "clearSession"
  /\ lastOp.hits > 0
  /\ \E s \in Sockets : sockets[s].closeCalled

\* the step delivers a hit_feedback frame
HitFeedbackStep == nFrames' = nFrames + 1

\* C7: a hit_feedback delivered while isCountdownActive leaves hitHistory and
\* currentRolling unchanged, and no dropped frame is ever in hitHistory
C7_DroppedNotBuffered ==
  [][/\ (HitFeedbackStep /\ store.isCountdownActive) =>
          /\ store'.hitHistory = store.hitHistory
          /\ store'.currentRolling = store.currentRolling
     /\ \A i \in 1 .. Len(store'.hitHistory) :
          store'.hitHistory[i].frame \notin dropped']_vars

\* C7 witness: a frame was dropped, the window was closed, and a later frame
\* has just been appended
C7_Witness ==
  /\ dropped # {}
  /\ ~store.isCountdownActive
  /\ lastOp.name = "onmessage"
  /\ store.hitHistory # <<>>

\* C8: a failed createSession changes no field of the store and opens no
\* socket, neither when it is called nor when it fails, and the caller
\* reports the error
C8_FailedCreateLeavesStore ==
  [][/\ (HandleStartSession \/ CreateSessionRejected) =>
          (store' = store /\ sockets' = sockets)
     /\ CreateSessionRejected =>
          (error' = "Failed to start session" /\ ~isLoading')]_vars

\* C8 witness: a request failed while an earlier session is connected
C8_Witness ==
  /\ lastOp.name = "createSessionRejected"
  /\ error = "Failed to start session"
  /\ store.currentSession # NullSession
  /\ store.isConnected

\* the frames of the last step that are update_tempo commands
IsUpdateTempo(e) ==
  /\ e.frame.type = "metronome_control"
  /\ e.frame.metronome_action = "update_tempo"

\* C9: every update_tempo command sent carries a custom_tempo_bpm that is an
\* integer in [40, 300]
C9_TempoInRange ==
  \A i \in 1 .. Len(out) :
    IsUpdateTempo(out[i]) =>
      /\ out[i].frame.custom_tempo_bpm # NullTempo
      /\ \A bpm \in out[i].frame.custom_tempo_bpm : bpm >= 40 /\ bpm <= 300

\* C10: with a session active and the channel connected, a device note-on
\* with velocity > 0 sends exactly one HitEvent carrying its note and
\* velocity, in the handler of that message, and a hit_feedback frame appends
\* exactly one entry to hitHistory
C10_NoteOnSendsFeedbackAppends ==
  /\ ( /\ lastOp.name = "onmidimessage"
       /\ lastOp.data[1] = 144 /\ lastOp.data[3] > 0
       /\ store.currentSession # NullSession
       /\ store.isConnected
       /\ IsOpen(World) )
     => out = <<Send(store.ws, [type |-> "midi", note |-> lastOp.data[2],
                                velocity |-> lastOp.data[3]])>>
  /\ ( /\ lastOp.name = "onmessage"
       /\ lastOp.message.type = "hit_feedback" )
     => /\ store.hitHistory # <<>>
        /\ store.hitHistory[Len(store.hitHistory)] = lastOp.message
        /\ Cardinality({i \in 1 .. Len(store.hitHistory) :
                          store.hitHistory[i] = lastOp.message}) = 1

\* what the two input sources do with an event arriving in this state
DeviceForwards ==
  onmidimessage(MidiClosure, World, <<144, 36, 100>>) # <<>>
KeyboardForwards ==
  handleKeyboardMidi(HandlerClosure, World, "KeyA").sent # <<>>

\* C11: a device note-on with velocity > 0 and a mapped key press are either
\* both forwarded or both dropped, and they are forwarded exactly when a
\* session is active and the channel is connected (stated for the states in
\* which the handlers are registered and the render is up to date)
C11_SameGate ==
  (midiHandlers # {} /\ view = RenderOf(store)) =>
    /\ DeviceForwards <=> KeyboardForwards
    /\ KeyboardForwards <=>
         (store.currentSession # NullSession /\ store.isConnected
            /\ IsOpen(World))

\* C12: disconnectWebSocket sets ws to null and isConnected to false and
\* changes no other field of the store, from any state
C12_DisconnectFrame ==
  [][DisconnectWebSocket =>
       store' = [store EXCEPT !.ws = NullSocket, !.isConnected = FALSE]]_vars

\* C12 witness: disconnectWebSocket was the last of connect, disconnect and
\* clearSession, it closed the socket, and session and history are still there
C12_Witness ==
  /\ cancelled
  /\ store.currentSession # NullSession
  /\ store.hitHistory # <<>>
  /\ \E s \in Sockets : sockets[s].closeCalled
  /\ store.ws = NullSocket /\ ~store.isConnected

\* h is an initial segment of g
IsPrefix(h, g) ==
  /\ Len(h) <= Len(g)
  /\ \A i \in 1 .. Len(h) : h[i] = g[i]

\* C13: in every step other than clearSession the history before the step is
\* a prefix of the history after it
C13_AppendOnly ==
  [][~ClearSession => IsPrefix(store.hitHistory, store'.hitHistory)]_vars

\* C13 witness: two entries were appended, in arrival order
C13_Witness ==
  /\ Len(store.hitHistory) = 2
  /\ store.hitHistory[1].frame < store.hitHistory[2].frame

\* C14: currentRolling is null when hitHistory is empty and otherwise the
\* rolling triple of the last entry
C14_RollingIsLast ==
  store.currentRolling =
    IF store.hitHistory = <<>> THEN NullRolling
    ELSE store.hitHistory[Len(store.hitHistory)].rolling

\* C14 witness: the second accepted feedback replaced the rolling triple
C14_Witness ==
  /\ Len(store.hitHistory) = 2
  /\ store.currentRolling = store.hitHistory[2].rolling
  /\ store.currentRolling # store.hitHistory[1].rolling

\* the rows of the hit list on screen
Rows == {rendered.rows[i] : i \in 1 .. Len(rendered.rows)}

\* the bucket of the score num / den as the intervals give it
Bucket(num, den) ==
  CASE num * 10 >= 9 * den * ScoreUnit -> "Perfect"
    [] 7 * den * ScoreUnit <= num * 10 /\ num * 10 < 9 * den * ScoreUnit
         -> "Good"
    [] 5 * den * ScoreUnit <= num * 10 /\ num * 10 < 7 * den * ScoreUnit
         -> "OK"
    [] num * 10 < 5 * den * ScoreUnit -> "Poor"

\* C15: every row shows for timing_score, and independently for the mean of
\* timing_score and dyn_score, the bucket Perfect at 0.9 and above, Good in
\* [0.7, 0.9), OK in [0.5, 0.7) and Poor below 0.5, whatever drill is
\* selected
C15_QualityBuckets ==
  \A row \in Rows :
    /\ row.timingQuality = Bucket(row.hit.timing_score, 1)
    /\ row.overallQuality =
         Bucket(row.hit.timing_score + row.hit.dyn_score, 2)

\* C15 witness: with the three-subdivision drill selected a row with
\* timing_score 0.9 and dyn_score 0.89999 shows Perfect for the timing and
\* Good overall
C15_Witness ==
  /\ view.selectedDrill = "d2"
  /\ \E row \in Rows :
       /\ row.hit.timing_score = 90000 /\ row.hit.dyn_score = 89999
       /\ row.timingQuality = "Perfect" /\ row.overallQuality = "Good"

\* C16: every row of a session's hit list shows beat
\* floor(slot_idx / subdivision) + 1 and subdivision
\* (slot_idx mod subdivision) + 1 for the subdivision of the drill the
\* session was created for
C16_BeatOfSessionDrill ==
  rendered.session # NullSession =>
    \A row \in Rows :
      /\ row.beat =
           (row.hit.slot_idx \div DrillSubdivision[rendered.session.drill_id])
             + 1
      /\ row.subdivision =
           (row.hit.slot_idx % DrillSubdivision[rendered.session.drill_id])
             + 1

\* the click of each kind as the specification gives it: pitch in Hz and
\* gain in tenths
ClickKinds ==
  [downbeat |-> [frequency |-> 800, gain |-> 3],
   beat |-> [frequency |-> 600, gain |-> 2],
   subdivision |-> [frequency |-> 400, gain |-> 1]]

\* the kind of click a tick calls for
KindOf(m) ==
  CASE m.is_downbeat -> "downbeat"
    [] ~m.is_downbeat /\ m.is_beat -> "beat"
    [] OTHER -> "subdivision"

\* C17: a handled metronome_tick sets the local phase to the beat and
\* subdivision of the message and plays exactly one click: downbeat when
\* is_downbeat, beat when only is_beat, subdivision otherwise, and pitch and
\* gain strictly decrease in that order
C17_TickSetsPhaseAndClicks ==
  [][\A s \in Sockets, m \in MetronomeTickFrames :
       (DeliverMetronome(s, m) /\ listener = s) =>
         /\ metronome'.currentBeat = m.beat
         /\ metronome'.currentSubdivision = m.subdivision
         /\ click' = <<ClickKinds[KindOf(m)]>>
         /\ ClickKinds.downbeat.frequency > ClickKinds.beat.frequency
         /\ ClickKinds.beat.frequency > ClickKinds.subdivision.frequency
         /\ ClickKinds.downbeat.gain > ClickKinds.beat.gain
         /\ ClickKinds.beat.gain > ClickKinds.subdivision.gain]_vars

\* C17 witness: a handled tick left the phase at (2, 1) and played the
\* subdivision click
C17_Witness ==
  /\ metronome.currentBeat = 2 /\ metronome.currentSubdivision = 1
  /\ click = <<ClickKinds.subdivision>>

\* C18: a handled metronome_state replaces is_playing, current_beat and
\* current_subdivision and plays no click, a handled metronome_tick leaves
\* is_playing as it was, and neither changes the store or a socket
C18_MetronomeFrameEffect ==
  [][\A s \in Sockets, m \in MetronomeFrames :
       DeliverMetronome(s, m) =>
         /\ store' = store /\ sockets' = sockets
         /\ (listener = s /\ m.type = "metronome_state") =>
              /\ metronome' =
                   [isMetronomePlaying |-> m.is_playing,
                    currentBeat |-> m.current_beat,
                    currentSubdivision |-> m.current_subdivision]
              /\ click' = <<>>
         /\ (listener = s /\ m.type = "metronome_tick") =>
              metronome'.isMetronomePlaying = metronome.isMetronomePlaying]_vars

\* C18 witness: a metronome_state set is_playing, and a later tick moved
\* the phase to (2, 0) with a click and left is_playing true
C18_Witness ==
  /\ metronome = [isMetronomePlaying |-> TRUE, currentBeat |-> 2,
                  currentSubdivision |-> 0]
  /\ click # <<>>
  /\ store.currentSession # NullSession

\* a metronome control is invoked
CommandStep == MetronomeCommand \/ ApplyTempo

\* C19: a metronome control command is written only when the session on
\* screen is active (the store's session whenever the render is up to date),
\* isConnected is true and the store's socket is OPEN, and it is written to
\* that socket; in every other state the command sends nothing and changes
\* no state
C19_CommandOnlyWhenConnected ==
  [][CommandStep =>
       IF /\ HandlerClosure.currentSession # NullSession
          /\ view = RenderOf(store) => store.currentSession # NullSession
          /\ store.isConnected
          /\ store.ws # NullSocket
          /\ sockets[store.ws].readyState = OPEN
       THEN \A i \in 1 .. Len(out') : out'[i].socket = store.ws
       ELSE /\ out' = <<>>
            /\ UNCHANGED <<catalog, setup, store, sockets, view, isLoading, error,
                           pending, nSessions, nFrames, midiHandlers,
                           customTempoBpm, showTempoCustomization, metronome,
                           listener, rendered>>]_vars

\* C19 witness: update_tempo was written to the OPEN socket of the store
\* with a session active and isConnected true
C19_Witness ==
  /\ lastOp.name = "handleUpdateMetronomeTempo"
  /\ Len(out) = 1
  /\ out[1].frame.metronome_action = "update_tempo"
  /\ out[1].socket = store.ws
  /\ store.currentSession # NullSession /\ store.isConnected
  /\ sockets[store.ws].readyState = OPEN

\* C20: a frame that is not valid JSON, has no type, has an unrecognized type
\* or has type session_start, calibration_update or error changes no field
\* of the store and closes no socket, and a hit_feedback frame that follows
\* it on the same socket is processed as any other
C20_OtherFramesDropped ==
  [][lastOp'.name = "onmessage" =>
       /\ lastOp'.message \in OtherFrames =>
            (store' = store /\ sockets' = sockets)
       /\ (lastOp'.message.type = "hit_feedback" /\ lastOp'.afterOther) =>
            store'.hitHistory =
              IF store.isCountdownActive THEN store.hitHistory
              ELSE Append(store.hitHistory, lastOp'.message)]_vars

\* C20 witness: a frame that is not JSON arrived on the store's socket, the
\* socket stayed OPEN, and the hit_feedback that followed it was appended
C20_Witness ==
  /\ lastOp.name = "onmessage"
  /\ lastOp.message.type = "hit_feedback"
  /\ lastOp.afterOther
  /\ store.ws = lastOp.socket
  /\ store.hitHistory # <<>>
  /\ store.hitHistory[Len(store.hitHistory)] = lastOp.message

\* C21: a hit_feedback frame that lacks a required field is discarded: no
\* entry of hitHistory lacks a field, and currentRolling is never an absent
\* value while the history is non-empty
C21_IncompleteDiscarded ==
  /\ \A i \in 1 .. Len(store.hitHistory) :
       "lacks" \notin DOMAIN store.hitHistory[i]
  /\ store.hitHistory # <<>> => store.currentRolling # UndefinedRolling

\* C22: with a session on screen, the status shown is connecting while the
\* socket of the latest connectWebSocket call is being opened, connected only
\* for that socket, and no longer connecting once that socket has failed,
\* dropped or been closed
C22_StatusMachine ==
  (view = RenderOf(store) /\ view.currentSession # NullSession
     /\ sockets # <<>>) =>
    /\ (sockets[Len(sockets)].readyState = CONNECTING /\ ~cancelled) =>
         StatusText(view) = "Connecting..."
    /\ StatusText(view) = "Connected" => store.ws = Len(sockets)
    /\ sockets[Len(sockets)].readyState = CLOSED =>
         StatusText(view) # "Connecting..."

\* C23: however often the setup effects run, MIDI access is requested at
\* most once, the catalog is fetched at most once and only enumerated inputs
\* carry a handler; a run after the first issues no request and changes
\* neither the store nor the handlers
C23_SetupOnce ==
  [][RunSetupEffects =>
       /\ setup'.midiRequests <= 1
       /\ setup'.drillRequests <= 1
       /\ midiHandlers' \subseteq MidiInputs
       /\ setup.runs > 0 =>
            /\ setup'.midiRequests = setup.midiRequests
            /\ setup'.drillRequests = setup.drillRequests
            /\ store' = store
            /\ midiHandlers' = midiHandlers]_vars

\* C23 witness: the effects ran again after the handlers were registered and
\* the catalog had arrived, and each request was issued once
C23_Witness ==
  /\ lastOp.name = "setupEffects"
  /\ setup.runs >= 2
  /\ setup.midiRequests = 1 /\ setup.drillRequests = 1
  /\ midiHandlers = MidiInputs
  /\ store.drills # {}

\* C24: a device message is mapped to a HitEvent exactly when its status is
\* a note-on of any of the 16 channels (high nibble 9) and its velocity is
\* above 0, and the HitEvent has type midi and the note and velocity of the
\* message
C24_NoteOnAnyChannel ==
  lastOp.name = "onmidimessage" =>
    lastOp.hit =
      IF lastOp.data[1] \div 16 = 9 /\ lastOp.data[3] > 0
      THEN <<[type |-> "midi", note |-> lastOp.data[2],
              velocity |-> lastOp.data[3]]>>
      ELSE <<>>

\* the notes the ten mapped codes stand for
MappedNote ==
  [KeyA |-> 36, KeyS |-> 38, KeyD |-> 42, KeyF |-> 46, KeyG |-> 49,
   KeyH |-> 51, KeyJ |-> 45, KeyK |-> 47, KeyL |-> 48, Space |-> 36]

\* C25: with a session active and the channel open, a keydown with one of the
\* ten mapped codes sends exactly one HitEvent of type midi with the mapped
\* note and velocity 80; a keydown with any other code sends nothing and its
\* default is not prevented (stated for an up-to-date render)
C25_KeyboardHit ==
  (lastOp.name = "keydown" /\ view = RenderOf(store)) =>
    IF lastOp.code \in DOMAIN MappedNote
    THEN ( /\ store.currentSession # NullSession
           /\ store.isConnected
           /\ store.ws # NullSocket
           /\ sockets[store.ws].readyState = OPEN )
         => out = <<Send(store.ws, [type |-> "midi",
                                    note |-> MappedNote[lastOp.code],
                                    velocity |-> 80])>>
    ELSE out = <<>> /\ ~lastOp.defaultPrevented

\* C25 witness: the space bar was pressed in a connected session and one
\* HitEvent went out
C25_Witness ==
  /\ lastOp.name = "keydown"
  /\ lastOp.code = "Space"
  /\ lastOp.defaultPrevented
  /\ view = RenderOf(store)
  /\ store.currentSession # NullSession
  /\ store.isConnected
  /\ Len(out) = 1

\* C26: selectDrill changes only selectedDrill: every other field of the
\* store keeps its value, no socket is created, closed or changed, and no
\* frame is sent, whether or not a channel is open
C26_SelectDrillFrame ==
  [][SelectDrill =>
       /\ store'.selectedDrill \in store.drills
       /\ store' = [store EXCEPT !.selectedDrill = store'.selectedDrill]
       /\ sockets' = sockets
       /\ nSessions' = nSessions
       /\ pending' = pending
       /\ out' = <<>>]_vars

\* C26 witness: the hits of a session are on screen under the drill of the
\* session, the channel is open, and another drill has been selected since
C26_Witness ==
  /\ store.currentSession # NullSession
  /\ rendered.session = store.currentSession
  /\ rendered.rows # <<>>
  /\ view.selectedDrill = store.currentSession.drill_id
  /\ store.selectedDrill # store.currentSession.drill_id
  /\ store.isConnected
  /\ store.ws # NullSocket
  /\ sockets[store.ws].readyState = OPEN
  /\ store.hitHistory # <<>>
  /\ store.currentRolling # NullRolling

\* the sum of a score over every entry of a history, in 1/ScoreUnit
RECURSIVE Total(_, _)
Total(h, field) ==
  IF h = <<>> THEN 0 ELSE h[1][field] + Total(Tail(h), field)

\* a percentage shown with one decimal, in tenths of a percent, is the mean
\* of the sum over length entries rounded to that decimal
IsMean(tenths, sum, length) ==
  /\ 2 * (tenths * (ScoreUnit \div 1000) * length - sum)
       <= (ScoreUnit \div 1000) * length
  /\ 2 * (sum - tenths * (ScoreUnit \div 1000) * length)
       <= (ScoreUnit \div 1000) * length

\* C27: the summary is taken over the whole of hitHistory and not over the
\* 15 hits listed: the count is the length of hitHistory and each mean is the
\* sum of the score over all entries divided by that length; with an empty
\* hitHistory no summary is computed
C27_SummaryOverWholeHistory ==
  rendered = HitList(store) =>
    IF store.hitHistory = <<>>
    THEN rendered.summary = <<>>
    ELSE /\ Len(rendered.summary) = 1
         /\ rendered.summary[1].count = Len(store.hitHistory)
         /\ IsMean(rendered.summary[1].timing,
                   Total(store.hitHistory, "timing_score"),
                   Len(store.hitHistory))
         /\ IsMean(rendered.summary[1].dynamics,
                   Total(store.hitHistory, "dyn_score"),
                   Len(store.hitHistory))

\* C27 witness: a history longer than the window, whose older hits have other
\* scores than the 15 listed, is on screen with its summary
C27_Witness ==
  /\ Len(store.hitHistory) > 15
  /\ rendered = HitList(store)
  /\ Len(rendered.rows) = 15
  /\ rendered.summary # <<>>
  /\ store.hitHistory[1].timing_score
       # store.hitHistory[Len(store.hitHistory)].timing_score
  /\ rendered.summary[1].timing
       # toFixed1(Total(LastN(store.hitHistory, 15), "timing_score"), 15)

\* the phase a metronome frame carries
PhaseOf(m) ==
  IF m.type = "metronome_state"
  THEN <<m.current_beat, m.current_subdivision>>
  ELSE <<m.beat, m.subdivision>>

\* C28: every metronome_state or metronome_tick frame delivered on the open
\* socket of the current session is applied to the local phase, whatever was
\* rendered since the open event: after it the phase is that of the frame
C28_EveryFrameApplied ==
  [][\A s \in Sockets, m \in MetronomeFrames :
       ( /\ DeliverMetronome(s, m)
         /\ store.currentSession # NullSession
         /\ sockets[s].sessionId = store.currentSession.id )
       => <<metronome'.currentBeat, metronome'.currentSubdivision>>
            = PhaseOf(m)]_vars

\* the drill whose bar the metronome counts
DrillInUse ==
  IF store.currentSession # NullSession
  THEN store.currentSession.drill_id ELSE store.selectedDrill

\* C29: in every reachable state the local phase is inside the bar of the
\* drill in use: 0 <= currentBeat < beats_per_bar and
\* 0 <= currentSubdivision < subdivision, whatever frames the service sends
C29_PhaseInRange ==
  /\ 0 <= metronome.currentBeat
  /\ metronome.currentBeat < BeatsPerBar(DrillInUse)
  /\ 0 <= metronome.currentSubdivision
  /\ metronome.currentSubdivision < Subdivision(DrillInUse)

\* a session existed and clearSession has ended it
SessionEnded ==
  nSessions > 0 /\ store.currentSession = NullSession

\* C30: once clearSession has ended a session no input handler remains
\* registered: no MIDI input has an onmidimessage handler, and no device or
\* keyboard callback runs while the session is cleared
C30_NoHandlerAfterSessionEnd ==
  SessionEnded =>
    /\ midiHandlers = {}
    /\ lastOp.name \notin {"onmidimessage", "keydown"}

\* C31: a close or error event of the socket the store holds leaves ws null
\* and isConnected false and changes no other field of the store
\* (currentSession, hitHistory and currentRolling among them), and a socket
\* is only ever created by a call of connectWebSocket: no event reconnects
C31_NoReconnect ==
  [][/\ \A s \in Sockets :
          (store.ws = s /\ CloseEventOf(s)) =>
            /\ store' = [store EXCEPT !.ws = NullSocket,
                                      !.isConnected = FALSE]
            /\ Len(sockets') = Len(sockets)
     /\ Len(sockets') # Len(sockets) =>
          /\ lastOp'.name = "createSessionResolved"
          /\ Len(sockets') = Len(sockets) + 1]_vars

\* C31 witness: the only socket of the run delivered feedback, was never
\* closed by the store, and is closed; the session and its history are kept
C31_Witness ==
  /\ nSessions = 1
  /\ Len(sockets) = 1
  /\ sockets[1].readyState = CLOSED
  /\ ~sockets[1].closeCalled
  /\ store.ws = NullSocket
  /\ ~store.isConnected
  /\ store.currentSession # NullSession
  /\ store.hitHistory # <<>>
  /\ store.currentRolling # NullRolling

\* C32: in a connected session every keydown of a mapped key has its default
\* prevented, and an auto-repeat keydown of a held key sends nothing, so that
\* one press sends one HitEvent (stated for an up-to-date render)
C32_KeyRepeatSuppressed ==
  ( /\ lastOp.name = "keydown"
    /\ lastOp.code \in DOMAIN MappedNote
    /\ view = RenderOf(store)
    /\ store.currentSession # NullSession
    /\ store.isConnected )
  => /\ lastOp.defaultPrevented
     /\ lastOp.repeat => out = <<>>

\* C33: whenever ws is non-null it is the socket of the most recent
\* connectWebSocket call and that socket was opened for the store's
\* sessionId, and every frame written goes to a socket opened for the store's
\* sessionId
C33_WsIsLatestSocket ==
  /\ store.ws # NullSocket =>
       /\ store.ws = Len(sockets)
       /\ sockets[store.ws].sessionId = store.sessionId
  /\ \A i \in 1 .. Len(out) :
       sockets[out[i].socket].sessionId = store.sessionId

\* C34: in every reachable state ws is non-null exactly when isConnected is
\* true
C34_WsIffConnected ==
  (store.ws # NullSocket) <=> store.isConnected

\* C34 witness: a second connection is held after the first one was held and
\* closed
C34_Witness ==
  /\ Len(sockets) = 2
  /\ sockets[1].readyState = CLOSED
  /\ sockets[1].closeCalled
  /\ store.ws = 2
  /\ store.isConnected

\* C35: in every reachable state sessionId is null exactly when
\* currentSession is null, and otherwise it is the id of currentSession
C35_SessionIdOfSession ==
  /\ (store.sessionId = NullId) <=> (store.currentSession = NullSession)
  /\ store.currentSession # NullSession =>
       store.sessionId = store.currentSession.id

\* C35 witness: a second session is the current one and the store has
\* closed the socket of the first
C35_Witness ==
  /\ nSessions = 2
  /\ store.currentSession # NullSession
  /\ store.currentSession.id = 2
  /\ store.sessionId = 2
  /\ sockets[1].closeCalled

\* C36: hitHistory holds only feedback received on the socket of the current
\* session: the step that starts a new session leaves no feedback of an
\* earlier session in hitHistory and currentRolling, and a hit_feedback frame
\* of a socket opened for another session than the current one is not added
C36_HistoryOfCurrentSession ==
  [][/\ lastOp'.name = "createSessionResolved" =>
          /\ store'.hitHistory = <<>>
          /\ store'.currentRolling = NullRolling
     /\ ( /\ lastOp'.name = "onmessage"
          /\ lastOp'.message.type = "hit_feedback"
          /\ sockets[lastOp'.socket].sessionId # store.sessionId )
        => store'.hitHistory = store.hitHistory]_vars

\* C37: clearSession and disconnectWebSocket are idempotent: from every
\* reachable state, calling either twice in a row leaves the store as one
\* call does, and the second call changes no socket
C37_Idempotent ==
  /\ disconnectWebSocket(disconnectWebSocket(World)).store
       = disconnectWebSocket(World).store
  /\ disconnectWebSocket(disconnectWebSocket(World)).sockets
       = disconnectWebSocket(World).sockets
  /\ clearSession(clearSession(World)).store = clearSession(World).store
  /\ clearSession(clearSession(World)).sockets = clearSession(World).sockets

\* C37 witness: clearSession was called twice in a row, in a run in which
\* hits were received and the store closed a socket
C37_Witness ==
  /\ lastOp.name = "clearSession"
  /\ lastOp.again
  /\ lastOp.hits = 0
  /\ nFrames > 0
  /\ store.hitHistory = <<>>
  /\ store.currentSession = NullSession
  /\ \E s \in Sockets : sockets[s].closeCalled

\* C38: the local metronome phase does not outlive its session: while no
\* session is active or the channel is not connected, is_playing is false and
\* beat and subdivision are 0, so that the next connected session starts with
\* the Start Metronome control enabled
C38_PhaseEndsWithSession ==
  (store.currentSession = NullSession \/ ~store.isConnected) =>
    metronome = InitialMetronome

====
